---- MODULE Spec2Model ----
(***************************************************************************)
(* Model of the SQLAlchemy fact store of hamsterlib                        *)
(* (src/hamsterlib/backends/sqlalchemy/storage.py): the persisted tables   *)
(* of facts, activities and categories and the FactManager operations      *)
(* _add, _update and remove with the _timeframe_is_free admission check.   *)
(* Datetimes are the instants 0..MaxTime; primary keys are integers, the   *)
(* absent pk (Python None) is the value None.                              *)
(* The helpers of src/hamsterlib/helpers.py (complete_timeframe and        *)
(* parse_time_range) are pure functions; each has a specification of its   *)
(* own that applies it to inputs drawn from bounded sets.  get_all, save,  *)
(* two concurrent callers of _add and the ActivityManager operations _add  *)
(* and _update have specifications of their own over the same tables.      *)
(***************************************************************************)
EXTENDS FiniteSets, Integers, Sequences, TLC

\* ---------------------------------------------------------------- bounds
\* Instants are 0..MaxTime.
MaxTime == 3
\* The database hands out fact pks 1..MaxPk.
MaxPk == 2

\* ------------------------------------------------------------ input sets
\* Python None as a primary key (pks are non-negative integers otherwise).
None == -1
\* An activity without category (category=None).
NoCategory == "none"

Times == 0..MaxTime
\* pks a caller can put on a fact: None, 0 and every key the database hands out.
PkInputs == {None} \cup (0..MaxPk)
Descriptions == {"d1"}
\* hamsterlib.Activity values handed in with a fact: no pk yet, one without
\* and one with a category.
ActivityInputs ==
    { [name |-> "a1", category |-> NoCategory, pk |-> None, deleted |-> FALSE],
      [name |-> "a2", category |-> "c1", pk |-> None, deleted |-> FALSE] }
\* hamsterlib.Fact values a caller can pass: any pk, an interval that does
\* not end before it starts (start = end included), an activity, a description.
FactInputs ==
    {f \in [pk : PkInputs, start : Times, end : Times,
            activity : ActivityInputs, description : Descriptions] :
        f.start <= f.end}

\* ----------------------------------------------------------------- state
VARIABLES
    facts,       \* table of AlchemyFact rows
    activities,  \* table of AlchemyActivity rows
    categories,  \* table of AlchemyCategory rows
    pc,          \* "idle", or "returned" when a call has just completed
    last,        \* the completed call: operation, argument, exception raised
    pre,         \* the tables as they were when that call started
    call,        \* a call of a helper of hamsterlib.helpers and its result
    writers      \* where each of two concurrent callers of _add stands

vars == <<facts, activities, categories, pc, last, pre, call, writers>>

\* ------------------------------------------------------- pure helpers
\* Python truthiness of a pk: None and 0 are falsy.
Truthy(pk) == pk # None /\ pk # 0

MaxOf(S) == CHOOSE m \in S : \A x \in S : x <= m

\* Key the database assigns to a new row of a table.
NewPk(table) == IF table = {} THEN 1 ELSE MaxOf({r.pk : r \in table}) + 1

\* FactManager._timeframe_is_free with strict lower comparisons (> for >=).
TimeframeIsFreeStrict(fs, start, end) ==
    ~ \E f \in fs :
        \/ (f.start > start /\ f.start <= end)
        \/ (f.end > start /\ f.end <= end)

\* FactManager._timeframe_is_free: no stored fact has its start or its end
\* inside [start, end].
TimeframeIsFree(fs, start, end) ==
    ~ \E f \in fs :
        \/ (f.start >= start /\ f.start <= end)
        \/ (f.end >= start /\ f.end <= end)

\* CategoryManager.get_by_name: the rows with that name (empty: KeyError).
GetByName(cats, name) == {c \in cats : c.name = name}

\* ActivityManager.get_by_composite: the rows with that name and category
\* (empty: KeyError, also when the category itself is not stored).
GetByComposite(acts, cats, name, category) ==
    IF category # NoCategory
    THEN IF GetByName(cats, category) = {}
         THEN {}
         ELSE LET c == CHOOSE c \in GetByName(cats, category) : TRUE
              IN  {a \in acts : a.name = name /\ a.category = c.pk}
    ELSE {a \in acts : a.name = name /\ a.category = None}

\* ActivityManager.get_or_create(activity, raw=True) for an activity without
\* pk: the tables afterwards and the pk of the row found or added.
ActGetOrCreate(acts, cats, a) ==
    LET found == GetByComposite(acts, cats, a.name, a.category)
    IN  IF found # {}
        THEN [activities |-> acts, categories |-> cats,
              pk |-> (CHOOSE r \in found : TRUE).pk]
        ELSE LET cats2 == IF a.category = NoCategory \/ GetByName(cats, a.category) # {}
                          THEN cats
                          ELSE cats \cup {[pk |-> NewPk(cats), name |-> a.category]}
                 catPk == IF a.category = NoCategory THEN None
                          ELSE (CHOOSE c \in GetByName(cats2, a.category) : TRUE).pk
                 row   == [pk |-> NewPk(acts), name |-> a.name,
                           category |-> catPk, deleted |-> a.deleted]
             IN  [activities |-> acts \cup {row}, categories |-> cats2, pk |-> row.pk]

\* The row AlchemyFact(fact) becomes once committed: the values of the fact
\* under the key the database assigns on persistence.
AlchemyFact(fs, f, actPk) ==
    [pk |-> NewPk(fs), start |-> f.start, end |-> f.end,
     activity |-> actPk, description |-> f.description]

Outcome(raised, reason, fs, acts, cats) ==
    [raised |-> raised, reason |-> reason,
     facts |-> fs, activities |-> acts, categories |-> cats]

\* ------------------------------------------------- FactManager._add
\* _add that stores the fact before it checks the time window.
AddResultWriteFirst(fs, acts, cats, f) ==
    LET g == ActGetOrCreate(acts, cats, f.activity)
        written == fs \cup {AlchemyFact(fs, f, g.pk)}
    IN  IF Truthy(f.pk)
        THEN Outcome("ValueError", "has_pk", fs, acts, cats)
        ELSE IF ~ TimeframeIsFree(fs, f.start, f.end)
        THEN Outcome("ValueError", "occupied", written, g.activities, g.categories)
        ELSE Outcome("none", "ok", written, g.activities, g.categories)

\* _add that skips the time window check.
AddResultNoCheck(fs, acts, cats, f) ==
    LET g == ActGetOrCreate(acts, cats, f.activity)
        written == fs \cup {AlchemyFact(fs, f, g.pk)}
    IN  IF Truthy(f.pk)
        THEN Outcome("ValueError", "has_pk", fs, acts, cats)
        ELSE Outcome("none", "ok", written, g.activities, g.categories)

\* FactManager._add: what it raises and the tables it leaves.
AddResult(fs, acts, cats, f) ==
    IF Truthy(f.pk)
    THEN Outcome("ValueError", "has_pk", fs, acts, cats)
    ELSE IF ~ TimeframeIsFree(fs, f.start, f.end)
    THEN Outcome("ValueError", "occupied", fs, acts, cats)
    ELSE LET g == ActGetOrCreate(acts, cats, f.activity)
         IN  Outcome("none", "ok", fs \cup {AlchemyFact(fs, f, g.pk)},
                     g.activities, g.categories)

\* ------------------------------------------------ FactManager._update
\* _update that looks the fact up before it checks the time window.
UpdateResultLookupFirst(fs, acts, cats, f) ==
    IF ~ Truthy(f.pk)
    THEN Outcome("ValueError", "no_pk", fs, acts, cats)
    ELSE IF ~ \E r \in fs : r.pk = f.pk
    THEN Outcome("KeyError", "not_found", fs, acts, cats)
    ELSE IF ~ TimeframeIsFree(fs, f.start, f.end)
    THEN Outcome("ValueError", "occupied", fs, acts, cats)
    ELSE LET old == CHOOSE r \in fs : r.pk = f.pk
             g   == ActGetOrCreate(acts, cats, f.activity)
             new == [pk |-> old.pk, start |-> f.start, end |-> f.end,
                     activity |-> g.pk, description |-> f.description]
         IN  Outcome("none", "ok", (fs \ {old}) \cup {new},
                     g.activities, g.categories)

\* FactManager._update: what it raises and the tables it leaves.
UpdateResult(fs, acts, cats, f) ==
    IF ~ Truthy(f.pk)
    THEN Outcome("ValueError", "no_pk", fs, acts, cats)
    ELSE IF ~ TimeframeIsFree(fs, f.start, f.end)
    THEN Outcome("ValueError", "occupied", fs, acts, cats)
    ELSE IF ~ \E r \in fs : r.pk = f.pk
    THEN Outcome("KeyError", "not_found", fs, acts, cats)
    ELSE LET old == CHOOSE r \in fs : r.pk = f.pk
             g   == ActGetOrCreate(acts, cats, f.activity)
             new == [pk |-> old.pk, start |-> f.start, end |-> f.end,
                     activity |-> g.pk, description |-> f.description]
         IN  Outcome("none", "ok", (fs \ {old}) \cup {new},
                     g.activities, g.categories)

\* ------------------------------------------------- FactManager.remove
\* FactManager.remove: what it raises and the tables it leaves.
RemoveResult(fs, acts, cats, f) ==
    IF ~ Truthy(f.pk)
    THEN Outcome("ValueError", "no_pk", fs, acts, cats)
    ELSE IF ~ \E r \in fs : r.pk = f.pk
    THEN Outcome("KeyError", "not_found", fs, acts, cats)
    ELSE Outcome("none", "ok", {r \in fs : r.pk # f.pk}, acts, cats)

\* --------------------------------------------------------------- actions
NoFact ==
    [pk |-> None, start |-> 0, end |-> 0,
     activity |-> CHOOSE a \in ActivityInputs : a.category = NoCategory,
     description |-> "d1"]
NoCall == [op |-> "none", fact |-> NoFact, raised |-> "none", reason |-> "none"]
Tables == [facts |-> facts, activities |-> activities, categories |-> categories]
EmptyTables == [facts |-> {}, activities |-> {}, categories |-> {}]

\* A completed call: its outcome becomes the state, the call is recorded.
Complete(op, f, r) ==
    /\ facts' = r.facts
    /\ activities' = r.activities
    /\ categories' = r.categories
    /\ pc' = "returned"
    /\ last' = [op |-> op, fact |-> f, raised |-> r.raised, reason |-> r.reason]
    /\ pre' = Tables
    /\ UNCHANGED <<call, writers>>

\* No helper has been called.
NoHelperCall == [fn |-> "none"]

\* Two sessions on the same database.
Writers == {"w1", "w2"}
\* A writer that has not called _add yet.
NoWrite == [pc |-> "idle", fact |-> NoFact, free |-> FALSE, seen |-> {}]

Init ==
    /\ facts = {}
    /\ activities = {}
    /\ categories = {}
    /\ pc = "idle"
    /\ last = NoCall
    /\ pre = EmptyTables
    /\ call = NoHelperCall
    /\ writers = [w \in Writers |-> NoWrite]

\* store.facts._add(fact)
Add(f) ==
    /\ pc = "idle"
    /\ LET r == AddResult(facts, activities, categories, f)
       IN  /\ \A x \in r.facts : x.pk <= MaxPk
           /\ Complete("add", f, r)

\* store.facts._update(fact)
Update(f) ==
    /\ pc = "idle"
    /\ Complete("update", f, UpdateResult(facts, activities, categories, f))

\* store.facts.remove(fact): only the pk of the fact is read.
Remove(pk) ==
    /\ pc = "idle"
    /\ LET f == [NoFact EXCEPT !.pk = pk]
       IN  Complete("remove", f, RemoveResult(facts, activities, categories, f))

\* The call has returned (or raised) to its caller; the next call can start.
Return ==
    /\ pc = "returned"
    /\ pc' = "idle"
    /\ last' = NoCall
    /\ pre' = EmptyTables
    /\ UNCHANGED <<facts, activities, categories, call, writers>>

Next ==
    \/ \E f \in FactInputs : Add(f)
    \/ \E f \in FactInputs : Update(f)
    \/ \E pk \in PkInputs : Remove(pk)
    \/ Return

Spec == Init /\ [][Next]_vars

TypeOK ==
    /\ pc \in {"idle", "returned"}
    /\ \A f \in facts : f.pk \in 1..MaxPk /\ f.start \in Times /\ f.end \in Times

\* ---------------------------------------------------------------- claims
Returned(op) == pc = "returned" /\ last.op = op
Conflict == last.raised = "ValueError" /\ last.reason = "occupied"
Unwritten == Tables = pre
\* t is an instant of the closed interval [start, end].
Within(t, start, end) == start <= t /\ t <= end
\* Two facts share a common instant.
Overlap(f, g) == \E t \in Times : Within(t, f.start, f.end) /\ Within(t, g.start, g.end)
\* A resolved interval.
Resolved(f) == f.start < f.end

\* C1: after any sequence of _add, _update and remove from the empty store,
\* no two distinct stored facts have intervals that share an instant.
C1_NoTwoFactsShareAnInstant ==
    \A f \in facts : \A g \in facts : f # g => ~ Overlap(f, g)

\* C2: creating a fact whose interval lies strictly inside the interval of a
\* stored fact is rejected with the Conflict ValueError and is not stored.
C2_InsideIsRejected ==
    ( /\ Returned("add")
      /\ last.fact.pk = None
      /\ last.fact.start <= last.fact.end
      /\ \E g \in pre.facts : g.start < last.fact.start /\ last.fact.end < g.end )
    => (Conflict /\ facts = pre.facts)

\* C3: an update of a stored fact whose new interval shares an instant with
\* no stored fact other than the fact itself succeeds.
C3_UpdateExcludesOwnInterval ==
    ( /\ Returned("update")
      /\ \E old \in pre.facts :
            /\ old.pk = last.fact.pk
            /\ \A g \in pre.facts \ {old} : ~ Overlap(last.fact, g) /\ Resolved(g) )
    => last.raised = "none"

\* C4: a fact create or update that fails with Conflict leaves the tables of
\* facts, activities and categories exactly as they were before the call.
C4_ConflictWritesNothing ==
    ((Returned("add") \/ Returned("update")) /\ Conflict) => Unwritten

\* C4 witness: a create is rejected with Conflict while the activity of its
\* fact is not stored yet (an early write would have added it).
C4_Witness ==
    /\ Returned("add")
    /\ Conflict
    /\ GetByComposite(pre.activities, pre.categories,
                      last.fact.activity.name, last.fact.activity.category) = {}

\* C5: once a fact with resolved interval A is stored, creating a new fact
\* with the identical interval A is rejected with the Conflict ValueError.
C5_IdenticalIsRejected ==
    ( /\ Returned("add")
      /\ last.fact.pk = None
      /\ Resolved(last.fact)
      /\ \E g \in pre.facts : g.start = last.fact.start /\ g.end = last.fact.end )
    => (Conflict /\ facts = pre.facts)

\* C5 witness: the second create of an identical resolved interval.
C5_Witness ==
    /\ Returned("add")
    /\ last.fact.pk = None
    /\ Resolved(last.fact)
    /\ \E g \in pre.facts : g.start = last.fact.start /\ g.end = last.fact.end
    /\ Conflict

\* C6: the admission check is symmetric: checking A against a store holding
\* only B gives the same boolean as checking B against a store holding only A.
C6_CheckIsSymmetric ==
    ( /\ Returned("add")
      /\ last.fact.pk = None
      /\ Resolved(last.fact)
      /\ Cardinality(pre.facts) = 1
      /\ \A b \in pre.facts : Resolved(b) )
    => \A b \in pre.facts :
          (~ Conflict) =
          TimeframeIsFree({[b EXCEPT !.start = last.fact.start, !.end = last.fact.end]},
                          b.start, b.end)

\* C7: the check made by a create or an update (past its pk guard) finds the
\* time window free iff no stored fact [s, e] has s or e inside the closed
\* interval [start, end]; a candidate starting where a stored fact ends is
\* not free.
C7_FreeIffNoEndpointInside ==
    ( \/ Returned("add") /\ ~ Truthy(last.fact.pk)
      \/ Returned("update") /\ Truthy(last.fact.pk) )
    => ( (~ Conflict) <=>
         \A g \in pre.facts :
            /\ ~ Within(g.start, last.fact.start, last.fact.end)
            /\ ~ Within(g.end, last.fact.start, last.fact.end) )

\* C7 witness: a candidate that starts exactly where the only stored fact
\* ends is found occupied.
C7_Witness ==
    /\ Returned("add")
    /\ last.fact.pk = None
    /\ Resolved(last.fact)
    /\ \E g \in pre.facts :
          pre.facts = {g} /\ Resolved(g) /\ g.end = last.fact.start
    /\ Conflict

\* C8: _add of a fact whose pk is not None, and _update of a fact whose pk is
\* None, fail with the lifecycle ValueError and write nothing.
C8_LifecycleGuards ==
    /\ (Returned("add") /\ last.fact.pk # None)
          => (last.raised = "ValueError" /\ last.reason = "has_pk" /\ Unwritten)
    /\ (Returned("update") /\ last.fact.pk = None)
          => (last.raised = "ValueError" /\ last.reason = "no_pk" /\ Unwritten)

\* C9: remove of a fact with a pk deletes exactly the stored fact of that pk
\* and succeeds whatever the other facts are; when no stored fact has the pk
\* it fails with KeyError and leaves the store unchanged.
C9_Remove ==
    (Returned("remove") /\ last.fact.pk # None)
    => IF \E g \in pre.facts : g.pk = last.fact.pk
       THEN /\ last.raised = "none"
            /\ facts = {g \in pre.facts : g.pk # last.fact.pk}
            /\ activities = pre.activities /\ categories = pre.categories
       ELSE last.raised = "KeyError" /\ Unwritten

\* C10 as stated: _update of a fact whose pk is set (it passes the pk guard)
\* but matches no stored fact fails with KeyError whatever its interval is,
\* and writes nothing.
C10_UnknownPkAlwaysKeyError ==
    ( /\ Returned("update")
      /\ Truthy(last.fact.pk)
      /\ ~ \E g \in pre.facts : g.pk = last.fact.pk )
    => (last.raised = "KeyError" /\ Unwritten)

\* C10 amended: _update of a fact whose non-zero pk matches no stored fact
\* writes nothing and fails with KeyError when its interval passes the
\* _timeframe_is_free check, and with the Conflict ValueError when not.
C10_UnknownPkAfterCheck ==
    ( /\ Returned("update")
      /\ Truthy(last.fact.pk)
      /\ ~ \E g \in pre.facts : g.pk = last.fact.pk )
    => /\ Unwritten
       /\ IF \E g \in pre.facts :
                \/ Within(g.start, last.fact.start, last.fact.end)
                \/ Within(g.end, last.fact.start, last.fact.end)
          THEN Conflict
          ELSE last.raised = "KeyError"

\* C10 witness: an update with an unknown pk and an occupied interval.
C10_Witness ==
    /\ Returned("update")
    /\ Truthy(last.fact.pk)
    /\ pre.facts # {}
    /\ ~ \E g \in pre.facts : g.pk = last.fact.pk
    /\ Conflict
    /\ Unwritten

\* ===================================================== complete_timeframe
\* helpers.complete_timeframe(timeframe, day_start).  A date is its day
\* number (day n stands for 2015-12-n), a time of day the second of the day,
\* a datetime a record of both, a timedelta a number of seconds.
SecondsPerDay == 86400
HMS(h, m, sec) == h * 3600 + m * 60 + sec
DT(d, t) == [date |-> d, time |-> t]

\* The values a TimeFrame field can hold: None, a datetime.date, a
\* datetime.time, a datetime.timedelta, or a str (v = 0: the empty string).
NoneV == [kind |-> "none", v |-> 0]
DateV(d) == [kind |-> "date", v |-> d]
TimeV(t) == [kind |-> "time", v |-> t]
DeltaV(secs) == [kind |-> "delta", v |-> secs]
StrV(n) == [kind |-> "str", v |-> n]

TimeFrame(sd, st, ed, et, off) ==
    [start_date |-> sd, start_time |-> st, end_date |-> ed, end_time |-> et,
     offset |-> off]

\* Python's "not x": None, '' and timedelta(0) are falsy; midnight is falsy
\* on interpreters older than 3.5 (mf) and truthy on the others.
Falsy(x, mf) ==
    \/ x.kind = "none"
    \/ x.kind = "str" /\ x.v = 0
    \/ x.kind = "delta" /\ x.v = 0
    \/ x.kind = "time" /\ x.v = 0 /\ mf

DtLess(a, b) == a.date < b.date \/ (a.date = b.date /\ a.time < b.time)

\* datetime - timedelta(seconds=secs)
DtMinus(dt, secs) ==
    LET total == dt.date * SecondsPerDay + dt.time - secs
    IN  DT(total \div SecondsPerDay, total % SecondsPerDay)

Ok(v) == [ok |-> TRUE, v |-> v]
\* The helper raised TypeError.
Bad == [ok |-> FALSE, v |-> 0]

\* get_day_end without the wrap over midnight.
GetDayEndNoWrap(today, day_start) == day_start - 1

\* complete_timeframe.get_day_end
GetDayEnd(today, day_start) == DtMinus(DT(today, day_start), 1).time

\* complete_timeframe.complete_start_date
CompleteStartDate(date, today, mf) ==
    IF Falsy(date, mf) THEN Ok(today)
    ELSE IF date.kind # "date" THEN Bad
    ELSE Ok(date.v)

\* complete_timeframe.complete_start_time
CompleteStartTime(time, day_start, mf) ==
    IF Falsy(time, mf) THEN Ok(day_start)
    ELSE IF time.kind # "time" THEN Bad
    ELSE Ok(time.v)

\* complete_end_date that rolls over only a defaulted end date.
CompleteEndDateDefaultOnly(date, start_date, day_start, end_time, mf) ==
    IF ~ Falsy(date, mf)
    THEN IF date.kind # "date" THEN Bad ELSE Ok(date.v)
    ELSE IF day_start # HMS(0, 0, 0)
    THEN IF Falsy(end_time, mf) THEN Ok(start_date + 1)
         ELSE IF end_time.kind # "time" THEN Bad
         ELSE IF end_time.v < day_start THEN Ok(start_date + 1)
         ELSE Ok(start_date)
    ELSE Ok(start_date)

\* complete_end_date that rolls over whatever day_start is.
CompleteEndDateAlwaysRoll(date, start_date, day_start, end_time, mf) ==
    LET d == IF Falsy(date, mf) THEN Ok(start_date)
             ELSE IF date.kind # "date" THEN Bad
             ELSE Ok(date.v)
    IN  IF ~ d.ok THEN Bad
        ELSE IF Falsy(end_time, mf) THEN Ok(d.v + 1)
        ELSE IF end_time.kind # "time" THEN Bad
        ELSE IF end_time.v < day_start THEN Ok(d.v + 1)
        ELSE Ok(d.v)

\* complete_timeframe.complete_end_date.  A str end_time makes the
\* comparison with day_start raise TypeError (Python 3) or lets it pass to
\* complete_end_time, which raises TypeError (Python 2).
CompleteEndDate(date, start_date, day_start, end_time, mf) ==
    LET d == IF Falsy(date, mf) THEN Ok(start_date)
             ELSE IF date.kind # "date" THEN Bad
             ELSE Ok(date.v)
    IN  IF ~ d.ok THEN Bad
        ELSE IF day_start # HMS(0, 0, 0)
        THEN IF Falsy(end_time, mf) THEN Ok(d.v + 1)
             ELSE IF end_time.kind # "time" THEN Bad
             ELSE IF end_time.v < day_start THEN Ok(d.v + 1)
             ELSE Ok(d.v)
        ELSE d

\* complete_timeframe.complete_end_time
CompleteEndTime(time, day_end, mf) ==
    IF Falsy(time, mf) THEN Ok(day_end)
    ELSE IF time.kind # "time" THEN Bad
    ELSE Ok(time.v)

Completed(raised, start, end) == [raised |-> raised, start |-> start, end |-> end]
TypeError == Completed("TypeError", DT(0, 0), DT(0, 0))

\* complete_timeframe: the pair it returns, or TypeError.
CompleteTimeframe(tf, day_start, now, mf) ==
    LET sd == CompleteStartDate(tf.start_date, now.date, mf)
        st == CompleteStartTime(tf.start_time, day_start, mf)
        start == IF Falsy(tf.offset, mf)
                 THEN IF sd.ok /\ st.ok THEN Ok(DT(sd.v, st.v)) ELSE Bad
                 ELSE IF tf.offset.kind # "delta" THEN Bad
                 ELSE Ok(DtMinus(now, tf.offset.v))
    IN  IF ~ start.ok THEN TypeError
        ELSE LET ed == CompleteEndDate(tf.end_date, start.v.date, day_start,
                                       tf.end_time, mf)
                 et == CompleteEndTime(tf.end_time, GetDayEnd(now.date, day_start), mf)
             IN  IF ed.ok /\ et.ok
                 THEN Completed("none", start.v, DT(ed.v, et.v))
                 ELSE TypeError

\* ------------------------------------------------------------- its inputs
\* The current time: 2015-12-10 12:30, and half past midnight of that day.
NowInputs == {DT(10, HMS(12, 30, 0)), DT(10, HMS(0, 30, 0))}
DayStartSamples == {HMS(0, 0, 0), HMS(5, 30, 0), HMS(14, 44, 23), HMS(23, 59, 59)}
AllDayStarts == 0 .. (SecondsPerDay - 1)
TimeSamples ==
    {HMS(0, 0, 0), HMS(2, 0, 0), HMS(17, 0, 0), HMS(18, 55, 0), HMS(23, 2, 0),
     HMS(23, 59, 59)}
WrongKind == {StrV(0), StrV(1)}
StartDateInputs == {NoneV, DateV(1), DateV(10)} \cup WrongKind
EndDateInputs == {NoneV, DateV(1), DateV(4)} \cup WrongKind
TimeInputs == {NoneV} \cup {TimeV(t) : t \in TimeSamples} \cup WrongKind
OffsetInputs == {NoneV, DeltaV(0), DeltaV(HMS(1, 30, 0))} \cup WrongKind
TimeFrameInputs ==
    [start_date : StartDateInputs, start_time : TimeInputs,
     end_date : EndDateInputs, end_time : TimeInputs, offset : OffsetInputs]
AllNone == TimeFrame(NoneV, NoneV, NoneV, NoneV, NoneV)
\* Every sample TimeFrame under the sample day starts, and the all-None
\* TimeFrame under every day start there is.
CompleteInputs ==
    [tf : TimeFrameInputs, day_start : DayStartSamples, now : NowInputs, mf : BOOLEAN]
    \cup [tf : {AllNone}, day_start : AllDayStarts, now : NowInputs, mf : BOOLEAN]

\* complete_timeframe(tf, day_start) called at the time now.
CompleteCall(tf, day_start, now, mf) ==
    /\ call = NoHelperCall
    /\ LET r == CompleteTimeframe(tf, day_start, now, mf)
       IN  call' = [fn |-> "complete", tf |-> tf, day_start |-> day_start,
                    now |-> now, mf |-> mf,
                    day_end |-> GetDayEnd(now.date, day_start),
                    raised |-> r.raised, start |-> r.start, end |-> r.end]
    /\ UNCHANGED <<facts, activities, categories, pc, last, pre, writers>>

\* One call per behaviour: the function is pure, calls do not interact.
NextComplete ==
    /\ call = NoHelperCall
    /\ \E i \in CompleteInputs : CompleteCall(i.tf, i.day_start, i.now, i.mf)

SpecComplete == Init /\ [][NextComplete]_vars

\* ------------------------------------------------------- claims C11..C17
Completing == call.fn = "complete"
\* Every field is None or of the kind the field expects.
WellTyped(tf) ==
    /\ tf.start_date.kind \in {"none", "date"}
    /\ tf.start_time.kind \in {"none", "time"}
    /\ tf.end_date.kind \in {"none", "date"}
    /\ tf.end_time.kind \in {"none", "time"}
    /\ tf.offset.kind \in {"none", "delta"}
\* Some field that is not None holds a value of the wrong kind.
IllTyped(tf) == ~ WellTyped(tf)

\* C11: whenever complete_timeframe accepts a TimeFrame (returns a pair), the
\* pair satisfies start < end.
C11_StartBeforeEnd ==
    (Completing /\ WellTyped(call.tf) /\ call.raised = "none")
    => DtLess(call.start, call.end)

C13_EndOnCurrentDate ==
    ( /\ Completing
      /\ call.now = DT(10, HMS(12, 30, 0))
      /\ call.day_start = HMS(5, 30, 0)
      /\ \E t \in {HMS(17, 0, 0), HMS(2, 0, 0)} :
            call.tf = TimeFrame(DateV(1), NoneV, NoneV, TimeV(t), NoneV) )
    => /\ call.raised = "none"
       /\ call.start = DT(1, HMS(5, 30, 0))
       /\ call.end = DT(call.now.date, call.tf.end_time.v)

\* C14: the all-None TimeFrame resolves to today at day_start and to 24 hours
\* less one second after that, for every day_start.
C14_AllNone ==
    (Completing /\ call.tf = AllNone)
    => /\ call.raised = "none"
       /\ call.start = DT(call.now.date, call.day_start)
       /\ call.end.date * SecondsPerDay + call.end.time
            = call.start.date * SecondsPerDay + call.start.time
              + 24 * 3600 - 1

\* C14 witness: day_start 05:30:00 at 2015-12-10 12:30 gives
\* 2015-12-10 05:30:00 to 2015-12-11 05:29:59.
C14_Witness ==
    /\ Completing
    /\ call.tf = AllNone
    /\ call.day_start = HMS(5, 30, 0)
    /\ call.now = DT(10, HMS(12, 30, 0))
    /\ call.start = DT(10, HMS(5, 30, 0))
    /\ call.end = DT(11, HMS(5, 29, 59))

\* C15: with an offset that is not None (a timedelta, zero included) the
\* start is now - offset and the end follows the ordinary end rule from the
\* date of that start.
C15_OffsetStart ==
    (Completing /\ WellTyped(call.tf) /\ call.tf.offset.kind = "delta")
    => /\ call.raised = "none"
       /\ call.start = DtMinus(call.now, call.tf.offset.v)
       /\ call.end.date =
            (IF call.tf.end_date.kind = "date" THEN call.tf.end_date.v
                                               ELSE call.start.date)
            + (IF /\ call.day_start # HMS(0, 0, 0)
                  /\ \/ call.tf.end_time.kind = "none"
                     \/ call.tf.end_time.v < call.day_start
               THEN 1 ELSE 0)

\* C16: the day end is day_start minus one second modulo 24 hours, for every
\* day_start: 00:00:00 gives 23:59:59, 05:30:00 gives 05:29:59, 23:59:59
\* gives 23:59:58.
C16_DayEnd ==
    Completing
    => /\ call.day_end = (call.day_start + SecondsPerDay - 1) % SecondsPerDay
       /\ call.day_start = HMS(0, 0, 0) => call.day_end = HMS(23, 59, 59)
       /\ call.day_start = HMS(5, 30, 0) => call.day_end = HMS(5, 29, 59)
       /\ call.day_start = HMS(23, 59, 59) => call.day_end = HMS(23, 59, 58)
       /\ (call.raised = "none" /\ Falsy(call.tf.end_time, call.mf))
             => call.end.time = call.day_end

\* C16 witness: day_start 00:00:00 ends the day at 23:59:59, used as the end
\* time of the all-None TimeFrame.
C16_Witness ==
    /\ Completing
    /\ call.tf = AllNone
    /\ call.day_start = HMS(0, 0, 0)
    /\ call.day_end = HMS(23, 59, 59)
    /\ call.end.time = HMS(23, 59, 59)

\* C17: complete_timeframe raises TypeError whenever a field that is not None
\* holds a value that is not of the expected kind.
C17_TypeError ==
    (Completing /\ IllTyped(call.tf)) => call.raised = "TypeError"

\* ====================================================== parse_time_range
\* helpers.parse_time_range(time_info).  A text is the sequence of its
\* characters; a parsed date is DateV(<<year, month, day>>), a parsed time
\* TimeV(second of the day), an offset DeltaV(seconds).
MaxPieces == 4

DigitChars == <<"0", "1", "2", "3", "4", "5", "6", "7", "8", "9">>
IsDigit(c) == \E i \in 1 .. 10 : DigitChars[i] = c
DigitVal(c) == (CHOOSE i \in 1 .. 10 : DigitChars[i] = c) - 1
\* The character at position p, "" past the end of the text.
At(s, p) == IF p >= 1 /\ p <= Len(s) THEN s[p] ELSE ""
\* \d{n} at p
DigitsAt(s, p, n) == \A i \in 0 .. (n - 1) : IsDigit(At(s, p + i))
\* \d{4}-\d{2}-\d{2} at p
DateAt(s, p) ==
    /\ DigitsAt(s, p, 4)
    /\ At(s, p + 4) = "-"
    /\ DigitsAt(s, p + 5, 2)
    /\ At(s, p + 7) = "-"
    /\ DigitsAt(s, p + 8, 2)
\* \d{2}:\d{2} at p
TimeAt(s, p) == DigitsAt(s, p, 2) /\ At(s, p + 2) = ":" /\ DigitsAt(s, p + 3, 2)

\* GroupLen whose dash takes no space in front of it.
GroupLenNoPad(g, s, p) ==
    LET sp == IF At(s, p) = " " THEN 1 ELSE 0
    IN  CASE g = 1 -> IF DateAt(s, p) THEN 10 ELSE 0
          [] g = 2 -> IF TimeAt(s, p + sp) THEN sp + 5 ELSE 0
          [] g = 3 -> IF At(s, p) = "-" THEN 1 ELSE 0
          [] g = 4 -> IF DateAt(s, p + sp) THEN sp + 10 ELSE 0
          [] g = 5 -> IF TimeAt(s, p + sp) THEN sp + 5 ELSE 0

\* How many characters group g (1: date1, 2: time1, 3: dash, 4: date2,
\* 5: time2) of the second alternative matches at p (0: it does not match).  The
\* optional leading space is taken when there is one: without it the group
\* would have to start with that space.
GroupLen(g, s, p) ==
    LET sp == IF At(s, p) = " " THEN 1 ELSE 0
    IN  CASE g = 1 -> IF DateAt(s, p) THEN 10 ELSE 0
          [] g = 2 -> IF TimeAt(s, p + sp) THEN sp + 5 ELSE 0
          [] g = 3 -> IF At(s, p + sp) = "-" THEN sp + 1 ELSE 0
          [] g = 4 -> IF DateAt(s, p + sp) THEN sp + 10 ELSE 0
          [] g = 5 -> IF TimeAt(s, p + sp) THEN sp + 5 ELSE 0

\* A pattern without the rest group: the text has to end at p.
RestOkEndOnly(s, p) == p = Len(s) + 1

\* (?P<rest>\D.+)?$ at p: the text ends at p, or a non-digit and at least
\* one more character follow.
RestOk(s, p) == p = Len(s) + 1 \/ (~ IsDigit(At(s, p)) /\ Len(s) - p + 1 >= 2)

\* The optional groups g .. 5 from position p on, then rest and $: each
\* group is first tried matched, then skipped (the backtracking order of re).
\* caps holds the text captured by each group, <<>> for a group that did
\* not take part.
RECURSIVE MatchGroups(_, _, _)
MatchGroups(s, p, g) ==
    IF g > 5 THEN [ok |-> RestOk(s, p), caps |-> <<>>]
    ELSE LET n == GroupLen(g, s, p)
             taken == MatchGroups(s, p + n, g + 1)
             skipped == MatchGroups(s, p, g + 1)
         IN  IF n > 0 /\ taken.ok
             THEN [ok |-> TRUE, caps |-> <<SubSeq(s, p, p + n - 1)>> \o taken.caps]
             ELSE [ok |-> skipped.ok, caps |-> <<<<>>>> \o skipped.caps]

NoCaps == <<<<>>, <<>>, <<>>, <<>>, <<>>>>
\* (?P<relative>-\d.+): greedy, so it takes the whole text when it matches.
RelativeAt(s) == Len(s) >= 3 /\ s[1] = "-" /\ IsDigit(s[2])
\* A pattern that tries the dates and times before "nothing, then rest".
MatchGroupsFirst(s) ==
    IF RelativeAt(s) THEN [matched |-> TRUE, relative |-> s, caps |-> NoCaps]
    ELSE LET m == MatchGroups(s, 1, 1)
         IN  IF m.ok THEN [matched |-> TRUE, relative |-> <<>>, caps |-> m.caps]
             ELSE [matched |-> RestOk(s, 1), relative |-> <<>>, caps |-> NoCaps]

\* re.compile(patterns).match(time_info): the first alternative (relative,
\* or nothing, then rest) is tried before the second.
Match(s) ==
    IF RelativeAt(s) THEN [matched |-> TRUE, relative |-> s, caps |-> NoCaps]
    ELSE IF RestOk(s, 1) THEN [matched |-> TRUE, relative |-> <<>>, caps |-> NoCaps]
    ELSE LET m == MatchGroups(s, 1, 1)
         IN  IF m.ok THEN [matched |-> TRUE, relative |-> <<>>, caps |-> m.caps]
             ELSE [matched |-> FALSE, relative |-> <<>>, caps |-> NoCaps]

\* str.strip() of a captured group: at most one leading space.
Strip(s) == IF s # <<>> /\ s[1] = " " THEN Tail(s) ELSE s
Num2(s, p) == DigitVal(s[p]) * 10 + DigitVal(s[p + 1])
Num4(s, p) == Num2(s, p) * 100 + Num2(s, p + 2)
IsLeap(y) == y % 4 = 0 /\ (y % 100 # 0 \/ y % 400 = 0)
DaysIn(y, m) ==
    IF m = 2 THEN (IF IsLeap(y) THEN 29 ELSE 28)
    ELSE IF m \in {4, 6, 9, 11} THEN 30 ELSE 31
\* What strptime accepts.
ValidDate(y, m, d) == y >= 1 /\ m \in 1 .. 12 /\ d \in 1 .. DaysIn(y, m)
ValidTime(h, mi) == h \in 0 .. 23 /\ mi \in 0 .. 59

\* get_date that takes any digits for a date.
GetDateUnchecked(date) ==
    IF date = <<>> THEN Ok(NoneV)
    ELSE LET t == Strip(date)
         IN  Ok(DateV(<<Num4(t, 1), Num2(t, 6), Num2(t, 9)>>))

\* parse_time_range.get_date: strptime raises ValueError (Bad) for a date
\* that does not exist.
GetDate(date) ==
    IF date = <<>> THEN Ok(NoneV)
    ELSE LET t == Strip(date)
             y == Num4(t, 1)
             m == Num2(t, 6)
             d == Num2(t, 9)
         IN  IF ValidDate(y, m, d) THEN Ok(DateV(<<y, m, d>>)) ELSE Bad

\* parse_time_range.get_time
GetTime(time) ==
    IF time = <<>> THEN Ok(NoneV)
    ELSE LET t == Strip(time)
             h == Num2(t, 1)
             mi == Num2(t, 4)
         IN  IF ValidTime(h, mi) THEN Ok(TimeV(HMS(h, mi, 0))) ELSE Bad

RECURSIVE Decimal(_)
\* The number a text of digits denotes.
Decimal(s) ==
    IF s = <<>> THEN 0
    ELSE Decimal(SubSeq(s, 1, Len(s) - 1)) * 10 + DigitVal(s[Len(s)])

\* int() that reads the leading digits and ignores what follows them.
IntOfLenient(s) ==
    LET k == CHOOSE j \in 2 .. Len(s) :
                /\ \A i \in 2 .. j : IsDigit(s[i])
                /\ ~ IsDigit(At(s, j + 1))
    IN  Ok(0 - Decimal(SubSeq(s, 2, k)))

\* int(s) of a text that starts with "-" and a digit: the digits may be
\* followed by whitespace only, anything else is a ValueError (Bad).
IntOf(s) ==
    IF \E k \in 2 .. Len(s) :
          /\ \A i \in 2 .. k : IsDigit(s[i])
          /\ \A i \in (k + 1) .. Len(s) : s[i] = " "
    THEN LET k == CHOOSE j \in 2 .. Len(s) :
                     /\ \A i \in 2 .. j : IsDigit(s[i])
                     /\ \A i \in (j + 1) .. Len(s) : s[i] = " "
         IN  Ok(0 - Decimal(SubSeq(s, 2, k)))
    ELSE Bad

Abs(n) == IF n < 0 THEN 0 - n ELSE n
Parsed(raised, tf) == [raised |-> raised, result |-> tf]
ValueError == Parsed("ValueError", AllNone)

\* parse_time_range: the TimeFrame it returns, or ValueError.
ParseTimeRange(time_info) ==
    LET match == Match(time_info)
    IN  IF ~ match.matched THEN Parsed("none", AllNone)
        ELSE IF match.relative # <<>>
        THEN LET n == IntOf(match.relative)
             IN  IF n.ok
                 THEN Parsed("none", TimeFrame(NoneV, NoneV, NoneV, NoneV,
                                               DeltaV(Abs(n.v) * 60)))
                 ELSE ValueError
        ELSE LET sd == GetDate(match.caps[1])
                 st == GetTime(match.caps[2])
                 ed == GetDate(match.caps[4])
                 et == GetTime(match.caps[5])
             IN  IF sd.ok /\ st.ok /\ ed.ok /\ et.ok
                 THEN Parsed("none", TimeFrame(sd.v, st.v, ed.v, et.v, NoneV))
                 ELSE ValueError

\* ------------------------------------------------------------- its inputs
Date1 == <<"2", "0", "1", "4", "-", "0", "1", "-", "0", "5">>
Date2 == <<"2", "0", "1", "4", "-", "0", "4", "-", "0", "1">>
Time1 == <<"1", "8", ":", "1", "5">>
Time2 == <<"0", "5", ":", "1", "9">>
Time3 == <<"1", "8", ":", "4", "3">>
\* A month and an hour there is none of.
BadDate == <<"2", "0", "1", "4", "-", "1", "3", "-", "0", "5">>
BadTime == <<"2", "5", ":", "0", "0">>
Sp == <<" ">>
Dash == <<"-">>
\* The texts of tests/test_helpers.py.
TestTexts ==
    { <<>>,
      <<"f", "o", "o", "b", "a", "r">>,
      <<"-", "3", "0">>,
      Date1 \o Sp \o Time1 \o Sp \o Dash \o Sp \o Date2 \o Sp \o Time2,
      Date1 \o Sp \o Dash \o Sp \o Date2 \o Sp \o Time2,
      Date1 \o Sp \o Dash \o Sp \o Date2,
      Date1 \o Dash \o Date2,
      Date1 \o Sp \o Dash \o Sp \o Sp \o Sp \o Sp \o Sp \o Date2,
      Date2,
      Time3,
      Sp \o Dash \o Sp \o Date2,
      <<"-", "3", "0">> \o Sp \o Date1 \o Sp \o Time1 \o Sp \o Dash \o Sp \o Date2 \o Sp \o Time2 }

\* The pieces texts are put together from.
Pieces == {Dash, Sp, <<"3">>, <<"0">>, <<"x">>, Date1, Time1, BadDate, BadTime}
RECURSIVE Flatten(_)
Flatten(ps) == IF ps = <<>> THEN <<>> ELSE Head(ps) \o Flatten(Tail(ps))
PieceTexts == {Flatten(ps) : ps \in UNION {[1 .. n -> Pieces] : n \in 0 .. MaxPieces}}
\* Texts of the form 'date1 time1 - date2 time2': which of the four
\* components are there, whether the dash is, and the number of spaces on
\* its left and on its right.  There is a start, and no end without a dash.
MaxPad == 3
SpanForms ==
    {f \in [d1 : BOOLEAN, t1 : BOOLEAN, dash : BOOLEAN, padL : 0 .. MaxPad,
            padR : 0 .. MaxPad, d2 : BOOLEAN, t2 : BOOLEAN] :
        /\ f.d1 \/ f.t1
        /\ ~ f.dash => (f.padL = 0 /\ f.padR = 0 /\ ~ f.d2 /\ ~ f.t2)}
Spaces(n) == [i \in 1 .. n |-> " "]
Opt(b, text) == IF b THEN text ELSE <<>>
FormText(f) ==
    Opt(f.d1, Date1) \o Opt(f.d1 /\ f.t1, Sp) \o Opt(f.t1, Time1)
    \o Opt(f.dash, Spaces(f.padL) \o Dash \o Spaces(f.padR))
    \o Opt(f.d2, Date2) \o Opt(f.d2 /\ f.t2, Sp) \o Opt(f.t2, Time2)
SpanTexts == {FormText(f) : f \in SpanForms}
ParseInputs == PieceTexts \cup TestTexts \cup SpanTexts

ParseCall(time_info) ==
    /\ call = NoHelperCall
    /\ LET r == ParseTimeRange(time_info)
       IN  call' = [fn |-> "parse", time_info |-> time_info,
                    raised |-> r.raised, result |-> r.result]
    /\ UNCHANGED <<facts, activities, categories, pc, last, pre, writers>>

\* One call per behaviour: the function is pure, calls do not interact.
NextParse ==
    /\ call = NoHelperCall
    /\ \E time_info \in ParseInputs : ParseCall(time_info)

SpecParse == Init /\ [][NextParse]_vars

\* ------------------------------------------------------- claims C18..C20
Parsing == call.fn = "parse"
\* "-", digits, then nothing but whitespace: what int() reads as a number.
IntegerText(s) ==
    \E k \in 2 .. Len(s) :
        /\ s[1] = "-"
        /\ \A i \in 2 .. k : IsDigit(s[i])
        /\ \A i \in (k + 1) .. Len(s) : s[i] = " "
\* "-" followed by one or more digits and nothing else.
DashDigits(s) == Len(s) >= 2 /\ s[1] = "-" /\ \A i \in 2 .. Len(s) : IsDigit(s[i])
\* "-", digits, a space, and then a date or a time.
OffsetThenSpan(s) ==
    \E k \in 2 .. Len(s) :
        /\ s[1] = "-"
        /\ \A i \in 2 .. k : IsDigit(s[i])
        /\ At(s, k + 1) = " "
        /\ DateAt(s, k + 2) \/ TimeAt(s, k + 2)
\* The text starts with neither an offset, a date nor a time.
Unrecognized(s) == ~ RelativeAt(s) /\ ~ DateAt(s, 1) /\ ~ TimeAt(s, 1)
DateTextExists(t) == ValidDate(Num4(Strip(t), 1), Num2(Strip(t), 6), Num2(Strip(t), 9))
TimeTextExists(t) == ValidTime(Num2(Strip(t), 1), Num2(Strip(t), 4))
\* A date or time the pattern picked out of the text does not exist.
ImpossibleDateOrTime(s) ==
    LET caps == Match(s).caps
    IN  \/ \E g \in {1, 4} : caps[g] # <<>> /\ ~ DateTextExists(caps[g])
        \/ \E g \in {2, 5} : caps[g] # <<>> /\ ~ TimeTextExists(caps[g])
OffsetOnly(minutes) == TimeFrame(NoneV, NoneV, NoneV, NoneV, DeltaV(minutes * 60))

C19_OffsetThenSpanRaises ==
    (Parsing /\ OffsetThenSpan(call.time_info)) => call.raised = "ValueError"

\* C19 witness: '-30 2014-01-05 18:15 - 2014-04-01 05:19' raised ValueError.
C19_Witness ==
    /\ Parsing
    /\ call.time_info = <<"-", "3", "0">> \o Sp \o Date1 \o Sp \o Time1 \o Sp
                          \o Dash \o Sp \o Date2 \o Sp \o Time2
    /\ call.raised = "ValueError"

\* C20: "-" followed by a non-negative integer N of one or more digits gives
\* start_date, start_time, end_date and end_time None and an offset of N
\* minutes.
C20_DashDigitsIsOffset ==
    (Parsing /\ DashDigits(call.time_info))
    => /\ call.raised = "none"
       /\ call.result =
            OffsetOnly(Decimal(SubSeq(call.time_info, 2, Len(call.time_info))))

\* ------------------------------------------------------- claims C21..C24
\* The values the components of a span text stand for.
Date1Value == DateV(<<2014, 1, 5>>)
Time1Value == TimeV(HMS(18, 15, 0))
Date2Value == DateV(<<2014, 4, 1>>)
Time2Value == TimeV(HMS(5, 19, 0))
Given(b, value) == IF b THEN value ELSE NoneV
\* Exactly the components a span text gives.
ComponentsGiven(f) ==
    TimeFrame(Given(f.d1, Date1Value), Given(f.t1, Time1Value),
              Given(f.d2, Date2Value), Given(f.t2, Time2Value), NoneV)
\* Only its start components.
StartGiven(f) ==
    TimeFrame(Given(f.d1, Date1Value), Given(f.t1, Time1Value), NoneV, NoneV, NoneV)
\* Span texts whose dash has zero or one space on each side, with the
\* TimeFrame of their components.
WellPadded == {<<FormText(f), ComponentsGiven(f)>> : f \in {g \in SpanForms : g.padL <= 1 /\ g.padR <= 1}}
\* Span texts with more than one space between the dash and the end that
\* follows it, with the TimeFrame of their start components.
OverPadded ==
    {<<FormText(f), StartGiven(f)>> :
        f \in {g \in SpanForms : g.dash /\ g.padR >= 2 /\ (g.d2 \/ g.t2)}}

\* C21: a text 'date1 time1 - date2 time2' that begins with a start date or
\* time, any other component omitted, the dash with zero or one space on
\* each side, gives exactly the components it holds and offset None.
C21_SpanComponents ==
    Parsing
    => \A e \in WellPadded :
          call.time_info = e[1] => (call.raised = "none" /\ call.result = e[2])

\* C21 witness: '2014-01-05 18:15 - 2014-04-01 05:19' gives all four
\* components.
C21_Witness ==
    /\ Parsing
    /\ call.time_info = Date1 \o Sp \o Time1 \o Sp \o Dash \o Sp \o Date2 \o Sp \o Time2
    /\ call.result = TimeFrame(Date1Value, Time1Value, Date2Value, Time2Value, NoneV)

\* C22: with more than one space between the dash and the date or time that
\* follows it, the start date and time before the dash are kept and end_date
\* and end_time are None.
C22_OverPaddedEndDropped ==
    Parsing
    => \A e \in OverPadded :
          call.time_info = e[1] => (call.raised = "none" /\ call.result = e[2])

\* C22 witness: '2014-01-05 18:15 -  2014-04-01 05:19' keeps the start only.
C22_Witness ==
    /\ Parsing
    /\ call.time_info = Date1 \o Sp \o Time1 \o Sp \o Dash \o Sp \o Sp \o Date2 \o Sp \o Time2
    /\ call.result = TimeFrame(Date1Value, Time1Value, NoneV, NoneV, NoneV)

\* C23: a returned end_date or end_time that is not None comes with a
\* start_date or start_time that is not None; ' - 2014-04-01' gives the
\* all-None TimeFrame.
C23_NoEndWithoutStart ==
    (Parsing /\ call.raised = "none")
    => /\ (call.result.end_date # NoneV \/ call.result.end_time # NoneV)
            => (call.result.start_date # NoneV \/ call.result.start_time # NoneV)
       /\ call.time_info = Sp \o Dash \o Sp \o Date2 => call.result = AllNone

\* C23 witness: ' - 2014-04-01' has been parsed to the all-None TimeFrame.
C23_Witness ==
    /\ Parsing
    /\ call.time_info = Sp \o Dash \o Sp \o Date2
    /\ call.raised = "none"
    /\ call.result = AllNone

\* The dash group took part in the match: a dash stands between the start
\* part and the end part.
DashBetween(s) == Match(s).caps[3] # <<>>

\* C24: end_date or end_time is set only when the dash stands between the
\* start part and the end part; '18:15 19:00' produces no end.
C24_EndNeedsDash ==
    (Parsing /\ call.raised = "none" /\ ~ DashBetween(call.time_info))
    => (call.result.end_date = NoneV /\ call.result.end_time = NoneV)

\* ==================================================== FactManager.get_all
\* The start and end a caller can pass to get_all: None or an instant.
TimeArgs == {None} \cup Times

\* FactManager.get_all(start, end) of the SQLAlchemy backend, which
\* overrides BaseFactManager.get_all; search_term is left at ''.  What it
\* raises and the rows it returns.
GetAllResult(fs, start, end) ==
    IF start # None /\ end # None /\ start < end
    THEN [raised |-> "ValueError", result |-> {}]
    ELSE IF start # None /\ end # None
    THEN [raised |-> "none", result |-> {f \in fs : f.start >= start /\ f.end <= end}]
    ELSE [raised |-> "none", result |-> fs]

\* store.facts.get_all(start, end)
GetAll(start, end) ==
    /\ pc = "idle"
    /\ LET r == GetAllResult(facts, start, end)
       IN  last' = [op |-> "get_all", start |-> start, end |-> end,
                    raised |-> r.raised, result |-> r.result]
    /\ pc' = "returned"
    /\ pre' = Tables
    /\ UNCHANGED <<facts, activities, categories, call, writers>>

NextQuery ==
    \/ \E f \in FactInputs : Add(f)
    \/ \E start \in TimeArgs, end \in TimeArgs : GetAll(start, end)
    \/ Return

SpecQuery == Init /\ [][NextQuery]_vars

\* ------------------------------------------------------- claims C25, C26
\* C25: get_all(start, end) raises ValueError only when end is before
\* start; for every start < end it returns exactly the stored facts with
\* fact.start >= start and fact.end <= end.
C25_GetAllWithin ==
    (Returned("get_all") /\ last.start # None /\ last.end # None)
    => /\ last.raised = "ValueError" => last.end < last.start
       /\ last.start < last.end
            => /\ last.raised = "none"
               /\ last.result =
                    {f \in facts : f.start >= last.start /\ f.end <= last.end}

\* C26: get_all with only start returns only facts that start at or after
\* start; with only end, only facts that end at or before end.
C26_GetAllOneBound ==
    (Returned("get_all") /\ last.raised = "none")
    => /\ (last.start # None /\ last.end = None)
            => \A f \in last.result : f.start >= last.start
       /\ (last.start = None /\ last.end # None)
            => \A f \in last.result : f.end <= last.end

\* ================================================= two writers, one store
\* The facts the writers create: no pk, so that _add gets to its check.
WriterFacts == {f \in FactInputs : f.pk = None}

\* The second half of _add that checks the time window once more.
WriteResultRecheck(fs, acts, cats, f) ==
    IF ~ TimeframeIsFree(fs, f.start, f.end)
    THEN Outcome("ValueError", "occupied", fs, acts, cats)
    ELSE LET g == ActGetOrCreate(acts, cats, f.activity)
         IN  Outcome("none", "ok", fs \cup {AlchemyFact(fs, f, g.pk)},
                     g.activities, g.categories)

\* The second half of FactManager._add, past the check: get_or_create of
\* the activity, session.add and session.commit.
WriteResult(fs, acts, cats, f) ==
    LET g == ActGetOrCreate(acts, cats, f.activity)
    IN  Outcome("none", "ok", fs \cup {AlchemyFact(fs, f, g.pk)},
                g.activities, g.categories)

\* Writer w calls _add(f) and runs its _timeframe_is_free query: it raises
\* when the window is occupied and goes on to write when it is free.
WriterCheck(w, f) ==
    /\ writers[w].pc = "idle"
    /\ LET free == TimeframeIsFree(facts, f.start, f.end)
       IN  writers' = [writers EXCEPT ![w] =
                          [pc |-> IF free THEN "checked" ELSE "done",
                           fact |-> f, free |-> free, seen |-> facts]]
    /\ UNCHANGED <<facts, activities, categories, pc, last, pre, call>>

\* Writer w, its check passed, adds its row and commits.
WriterCommit(w) ==
    /\ writers[w].pc = "checked"
    /\ LET r == WriteResult(facts, activities, categories, writers[w].fact)
       IN  /\ facts' = r.facts
           /\ activities' = r.activities
           /\ categories' = r.categories
    /\ writers' = [writers EXCEPT ![w].pc = "done"]
    /\ UNCHANGED <<pc, last, pre, call>>

NextWriters ==
    \/ \E w \in Writers, f \in WriterFacts : WriterCheck(w, f)
    \/ \E w \in Writers : WriterCommit(w)

SpecWriters == Init /\ [][NextWriters]_vars

\* ------------------------------------------------------------ claim C27
\* Both writers ran their check before either committed (each saw the empty
\* store and found its window free), and both are done.
BothCheckedFirst ==
    \A w \in Writers :
        /\ writers[w].pc = "done"
        /\ writers[w].free
        /\ writers[w].seen = {}
\* The fact of writer w is stored.
Stored(w) ==
    \E r \in facts : r.start = writers[w].fact.start /\ r.end = writers[w].fact.end

\* C27: with two writers on one store, when both creates run their
\* _timeframe_is_free check before either commits, both facts end up
\* stored, intersecting intervals included.
C27_BothCheckedBothStored ==
    BothCheckedFirst => (Cardinality(facts) = 2 /\ \A w \in Writers : Stored(w))

\* C27 witness: that interleaving has happened with intersecting intervals
\* and both intersecting facts are stored.
C27_Witness ==
    /\ BothCheckedFirst
    /\ Overlap(writers["w1"].fact, writers["w2"].fact)
    /\ Resolved(writers["w1"].fact)
    /\ Resolved(writers["w2"].fact)
    /\ \E f \in facts : \E g \in facts : f # g /\ Overlap(f, g)

\* ================================================== BaseFactManager.save
\* BaseFactManager.save: `if fact.pk or fact.pk == 0` sends every fact whose
\* pk is not None to _update and the others to _add.
SaveResult(fs, acts, cats, f) ==
    IF Truthy(f.pk) \/ f.pk = 0
    THEN UpdateResult(fs, acts, cats, f)
    ELSE AddResult(fs, acts, cats, f)

\* store.facts.save(fact)
Save(f) ==
    /\ pc = "idle"
    /\ LET r == SaveResult(facts, activities, categories, f)
       IN  /\ \A x \in r.facts : x.pk <= MaxPk
           /\ Complete("save", f, r)

NextSave ==
    \/ \E f \in FactInputs : Save(f)
    \/ Return

SpecSave == Init /\ [][NextSave]_vars

\* ------------------------------------------------------- claims C28, C29
\* C28: save never fails with the 'already has a PK' or the 'does not have
\* a PK' ValueError: a fact with a pk, 0 included, is accepted by update as
\* having one, a fact without pk goes to add.
C28_SaveNeverHitsLifecycleGuard ==
    Returned("save") => last.reason \notin {"has_pk", "no_pk"}

\* C29: after any sequence of creates and updates every stored fact has
\* start < end; the store admits no empty or inverted interval.
C29_StoredFactsResolved == \A f \in facts : Resolved(f)

\* ====================================================== ActivityManager
\* hamsterlib.Activity values a caller can pass to _add and _update.
ActivityArgs ==
    [name : {"a1", "a2"}, category : {NoCategory, "c1"}, pk : PkInputs,
     deleted : BOOLEAN]

\* ActivityManager._add: what it raises and the tables it leaves.
ActAddResult(fs, acts, cats, a) ==
    IF Truthy(a.pk)
    THEN Outcome("ValueError", "has_pk", fs, acts, cats)
    ELSE IF GetByComposite(acts, cats, a.name, a.category) # {}
    THEN Outcome("ValueError", "taken", fs, acts, cats)
    ELSE LET g == ActGetOrCreate(acts, cats, a)
         IN  Outcome("none", "ok", fs, g.activities, g.categories)

\* ActivityManager._update: what it raises and the tables it leaves.
ActUpdateResult(fs, acts, cats, a) ==
    IF ~ Truthy(a.pk)
    THEN Outcome("ValueError", "no_pk", fs, acts, cats)
    ELSE IF GetByComposite(acts, cats, a.name, a.category) # {}
    THEN Outcome("ValueError", "taken", fs, acts, cats)
    ELSE IF ~ \E r \in acts : r.pk = a.pk
    THEN Outcome("KeyError", "not_found", fs, acts, cats)
    ELSE LET old == CHOOSE r \in acts : r.pk = a.pk
             cats2 == IF a.category = NoCategory \/ GetByName(cats, a.category) # {}
                      THEN cats
                      ELSE cats \cup {[pk |-> NewPk(cats), name |-> a.category]}
             catPk == IF a.category = NoCategory THEN None
                      ELSE (CHOOSE c \in GetByName(cats2, a.category) : TRUE).pk
             new == [pk |-> old.pk, name |-> a.name, category |-> catPk,
                     deleted |-> a.deleted]
         IN  Outcome("none", "ok", fs, (acts \ {old}) \cup {new}, cats2)

\* A completed call of the ActivityManager.
CompleteActivity(op, a, r) ==
    /\ facts' = r.facts
    /\ activities' = r.activities
    /\ categories' = r.categories
    /\ pc' = "returned"
    /\ last' = [op |-> op, activity |-> a, raised |-> r.raised, reason |-> r.reason]
    /\ pre' = Tables
    /\ UNCHANGED <<call, writers>>

\* store.activities._add(activity)
ActAdd(a) ==
    /\ pc = "idle"
    /\ LET r == ActAddResult(facts, activities, categories, a)
       IN  /\ \A x \in r.activities : x.pk <= MaxPk
           /\ CompleteActivity("act_add", a, r)

\* store.activities._update(activity)
ActUpdate(a) ==
    /\ pc = "idle"
    /\ CompleteActivity("act_update", a,
                        ActUpdateResult(facts, activities, categories, a))

NextActivities ==
    \/ \E a \in ActivityArgs : ActAdd(a)
    \/ \E a \in ActivityArgs : ActUpdate(a)
    \/ Return

SpecActivities == Init /\ [][NextActivities]_vars

\* ------------------------------------------------------------ claim C30
\* The stored activities that have the name and category of the argument.
SameComposite ==
    GetByComposite(pre.activities, pre.categories,
                   last.activity.name, last.activity.category)

\* C30: _update of a stored activity that keeps its name and category
\* succeeds, and the 'combination already taken' ValueError is raised only
\* when a different stored activity has that name and category.
C30_UpdateKeepingComposite ==
    Returned("act_update")
    => /\ (\E old \in SameComposite : old.pk = last.activity.pk)
            => last.raised = "none"
       /\ last.reason = "taken"
            => \E other \in SameComposite : other.pk # last.activity.pk
====
